---- MODULE Spec2Model ----
(***************************************************************************)
(* Tangent ray casting: "pygame_experiments/tangent raycasting/main.py".   *)
(*                                                                         *)
(* The program computes with Python floats.  The model computes the same   *)
(* expressions in exact real arithmetic: every value the program can       *)
(* produce from integer inputs lies in a field Q(sqrt m), and is held as   *)
(* a record                                                                *)
(*                                                                         *)
(*     [a |-> a, b |-> b, m |-> m, d |-> d, rnd |-> rnd]                   *)
(*                                                                         *)
(* meaning (a + b*sqrt(m))/d in normal form: d > 0, gcd(a, b, d) = 1, m    *)
(* square-free and >= 2 when b # 0, and m = 0 when b = 0.  rnd tells       *)
(* whether the program's float can differ from the number: it is FALSE     *)
(* when the float was computed without any rounding and is the number      *)
(* itself, and TRUE when the number is no float (it is irrational, or its  *)
(* denominator is no power of two) or was computed from such numbers.      *)
(* The integer n is Q(n) = [a |-> n, b |-> 0, m |-> 0, d |-> 1,            *)
(* rnd |-> FALSE].                                                         *)
(*                                                                         *)
(* The model therefore agrees with the program up to floating-point        *)
(* rounding, and exactly where rnd is FALSE.  A test on numbers that are   *)
(* equal in exact arithmetic is decided by rounding when they are rounded: *)
(* there the program can take either branch, and circle_line_intersection, *)
(* get_first_intersection and is_visible return the set of all the         *)
(* outcomes they can have.  On integer arguments the set has one element.  *)
(***************************************************************************)
EXTENDS Integers, Sequences, FiniteSets, TLC

VARIABLES pc, args, result, radius, position, circles, status

vars == <<pc, args, result, radius, position, circles, status>>

(***************************************************************************)
(* Exact arithmetic (Python float operators + - * / abs < and math.sqrt).  *)
(***************************************************************************)
AbsInt(n) == IF n < 0 THEN -n ELSE n

SignInt(n) == IF n > 0 THEN 1 ELSE IF n < 0 THEN -1 ELSE 0

RECURSIVE Gcd(_, _)
Gcd(x, y) == IF y = 0 THEN AbsInt(x) ELSE Gcd(y, x % AbsInt(y))

\* The integer square root of n >= 0, by bisection within lo..hi.
RECURSIVE IsqrtIn(_, _, _)
IsqrtIn(n, lo, hi) ==
    IF lo = hi THEN lo
    ELSE LET mid == (lo + hi + 1) \div 2
         IN  IF mid * mid <= n THEN IsqrtIn(n, mid, hi) ELSE IsqrtIn(n, lo, mid - 1)

Isqrt(n) == IsqrtIn(n, 0, IF n < 46340 THEN n ELSE 46340)

\* r when it is the square root of n, and 1 otherwise.
RootIfSquare(n, r) == IF r * r = n THEN r ELSE 1

\* The largest s with s*s dividing n (n >= 1), when n has no divisor in 2..p-1:
\* the smallest divisor s0 >= p of n is searched in p..2p-1, then from 2p on,
\* and divided out, once (s0 is then no part of s) or twice; past the cube
\* root of n what is left is a square or square-free.
RECURSIVE SquarePartFrom(_, _)
SquarePartFrom(n, p) ==
    IF p * p > n \div p THEN RootIfSquare(n, Isqrt(n))
    ELSE LET hits == {s \in p..(2 * p - 1) : n % s = 0}
             s0   == CHOOSE s \in hits : \A t \in hits : s <= t
         IN  IF hits = {} THEN SquarePartFrom(n, 2 * p)
             ELSE IF n % (s0 * s0) = 0 THEN s0 * SquarePartFrom(n \div (s0 * s0), s0)
             ELSE SquarePartFrom(n \div s0, s0 + 1)

SquarePart(n) == SquarePartFrom(n, 2)

\* (a + b*sqrt(m))/d with d # 0 and m square-free (or 0, or 1), in normal form,
\* as a number alone (no field rnd).
\* (a + b*sqrt(m))/d with the common divisor g of a, b and d cancelled, d > 0.
Cancel(a, b, m, d, g) ==
    IF d < 0 THEN [a |-> -(a \div g), b |-> -(b \div g), m |-> m, d |-> -(d \div g)]
    ELSE [a |-> a \div g, b |-> b \div g, m |-> m, d |-> d \div g]

Reduce(a, b, m, d) ==
    IF m = 0 \/ b = 0 THEN Cancel(a, 0, 0, d, Gcd(a, d))
    ELSE IF m = 1 THEN Cancel(a + b, 0, 0, d, Gcd(a + b, d))
    ELSE Cancel(a, b, m, d, Gcd(Gcd(a, b), d))

RECURSIVE IsPowerOfTwo(_)
IsPowerOfTwo(n) == n = 1 \/ (n % 2 = 0 /\ IsPowerOfTwo(n \div 2))

\* The number w is a float: a rational whose denominator is a power of two
\* (numerators stay far below 2^53).
IsFloat(w) == w.b = 0 /\ IsPowerOfTwo(w.d)

\* The result of a float operation whose exact result is w: it is w itself
\* when w is a float and was computed from operands that were (rounded is
\* FALSE), and a rounded w otherwise.
AsFloat(w, rounded) ==
    [a |-> w.a, b |-> w.b, m |-> w.m, d |-> w.d, rnd |-> rounded \/ ~IsFloat(w)]

Q(n) == [a |-> n, b |-> 0, m |-> 0, d |-> 1, rnd |-> FALSE]

\* The float u is 0.0 and no rounded value.
IsZero(u) == u.a = 0 /\ u.b = 0 /\ ~u.rnd

\* u is an integer.
IsInt(u) == u.b = 0 /\ u.d = 1

\* The integer n as the result of a float operation.
IntFloat(n, rounded) == [a |-> n, b |-> 0, m |-> 0, d |-> 1, rnd |-> rounded]

\* u and v are one number.
Same(u, v) == u.a = v.a /\ u.b = v.b /\ u.m = v.m /\ u.d = v.d

\* The sign of a - b*sqrt(m) for a >= 0, b >= 0 and s = Isqrt(m), found without
\* squaring a: with a = s*b + rho, a - b*sqrt(m) has the sign of
\* rho*sqrt(m) - (b*(m - s*s) - rho*s).
RECURSIVE CmpSurd(_, _, _, _)
CmpSurd(a, b, m, s) ==
    IF b = 0 THEN SignInt(a)
    ELSE LET k   == a \div b
             rho == a % b
             a1  == b * (m - s * s) - rho * s
         IN  IF k > s THEN 1
             ELSE IF k < s THEN -1
             ELSE IF rho = 0 THEN (IF s * s = m THEN 0 ELSE -1)
             ELSE IF a1 <= 0 THEN 1
             ELSE -CmpSurd(a1, rho, m, s)

\* The sign of a + b*sqrt(m) for integers a, b and m >= 0.
SignSurd(a, b, m) ==
    IF b = 0 \/ m = 0 THEN SignInt(a)
    ELSE IF a = 0 THEN SignInt(b)
    ELSE IF SignInt(a) = SignInt(b) THEN SignInt(a)
    ELSE SignInt(a) * CmpSurd(AbsInt(a), AbsInt(b), m, Isqrt(m))

Sign(u) == SignSurd(u.a, u.b, u.m)

Neg(u) == [u EXCEPT !.a = -u.a, !.b = -u.b]

\* u + v; defined when u and v lie in one field (equal radicands, or one rational).
\* The number u + v over the common denominator ud * vd * g, for
\* ud = u.d / g and vd = v.d / g.
Sum(u, v, ud, vd, g) ==
    Reduce(u.a * vd + v.a * ud, u.b * vd + v.b * ud, IF u.b # 0 THEN u.m ELSE v.m,
           ud * vd * g)

SumOver(u, v, g) == Sum(u, v, u.d \div g, v.d \div g, g)

Add(u, v) ==
    IF IsInt(u) /\ IsInt(v) THEN IntFloat(u.a + v.a, u.rnd \/ v.rnd)
    ELSE AsFloat(SumOver(u, v, Gcd(u.d, v.d)), u.rnd \/ v.rnd)

Sub(u, v) == Add(u, Neg(v))

\* The number u * v; defined when u and v lie in one field, or when both are
\* pure surds (a = 0), whose radicands then multiply.  Common factors of one
\* numerator and the other denominator are cancelled before multiplying.
\* (ua + ub*sqrt(um))/1 times (va + vb*sqrt(vm))/1, over d; g is the common
\* divisor of the radicands.
ProductOf(ua, ub, um, va, vb, vm, d, g) ==
    IF ub # 0 /\ vb # 0 /\ um # vm
    THEN Reduce(0, ub * vb * g, (um \div g) * (vm \div g), d)
    ELSE IF ub # 0 THEN Reduce(ua * va + ub * vb * um, ua * vb + ub * va, um, d)
    ELSE Reduce(ua * va, ua * vb, vm, d)

\* u * v with gu cancelled from u's numerator and v's denominator, and gv
\* from v's numerator and u's denominator.
ProductBy(u, v, gu, gv) ==
    ProductOf(u.a \div gu, u.b \div gu, u.m, v.a \div gv, v.b \div gv, v.m,
              (u.d \div gv) * (v.d \div gu), Gcd(u.m, v.m))

Product(u, v) == ProductBy(u, v, Gcd(Gcd(u.a, u.b), v.d), Gcd(Gcd(v.a, v.b), u.d))

\* u * v: 0.0 times any float is 0.0.
Mul(u, v) ==
    IF IsInt(u) /\ IsInt(v)
    THEN IntFloat(u.a * v.a, (u.rnd \/ v.rnd) /\ ~IsZero(u) /\ ~IsZero(v))
    ELSE AsFloat(Product(u, v), (u.rnd \/ v.rnd) /\ ~IsZero(u) /\ ~IsZero(v))

\* The number 1 / u for u # 0.
Inv(u) == Reduce(u.d * u.a, -(u.d * u.b), u.m, u.a * u.a - u.b * u.b * u.m)

\* u / v: 0.0 divided by any float but 0.0 is 0.0.
Div(u, v) == AsFloat(Product(u, Inv(v)), (u.rnd \/ v.rnd) /\ ~IsZero(u))

Abs(u) == IF Sign(u) < 0 THEN Neg(u) ELSE u

\* math.sqrt of a rational u >= 0.  The square root of an irrational number
\* is not a number of the model: no value is chosen for it.
Sqrt(u) ==
    IF u.b # 0 THEN CHOOSE x \in {} : TRUE
    ELSE IF u.a = 0 THEN u
    ELSE LET sa == SquarePart(u.a)
             sd == SquarePart(u.d)
             w  == u.d \div (sd * sd)
         IN  AsFloat(Reduce(0, sa, (u.a \div (sa * sa)) * w, sd * w), u.rnd)

\* The sign of p + q*sqrt(m) + r*sqrt(n) for square-free m # n, q # 0, r # 0.
SignSurd2(p, q, m, r, n) ==
    LET s == IF SignInt(q) = SignInt(r) THEN SignInt(q)
             ELSE IF q * q * m > r * r * n THEN SignInt(q) ELSE SignInt(r)
        e == SignSurd(p * p - q * q * m - r * r * n, -(2 * q * r), m * n)
    IN  IF p = 0 \/ SignInt(p) = s THEN s
        ELSE IF e > 0 THEN SignInt(p) ELSE IF e < 0 THEN s ELSE 0

\* u < v, for any two numbers.
Less(u, v) ==
    IF u.b = 0 \/ v.b = 0 \/ u.m = v.m THEN Sign(Sub(u, v)) < 0
    ELSE LET g  == Gcd(u.d, v.d)
             ud == u.d \div g
             vd == v.d \div g
             p  == u.a * vd - v.a * ud
             q  == u.b * vd
             r  == -(v.b * ud)
             h  == Gcd(Gcd(p, q), r)
         IN  SignSurd2(p \div h, q \div h, u.m, r \div h, v.m) < 0

Max(u, v) == IF Less(u, v) THEN v ELSE u

(***************************************************************************)
(* get_tangents(x1, y1, r1, x2, y2, r2): integer centres and radii; the    *)
(* result is a sequence of segments <<ax, ay, bx, by>> of exact numbers.   *)
(***************************************************************************)
\* A variant of TangentSegment with the sign of the second term of ny flipped:
\* its (nx, ny) is not a unit normal.  The endpoint distances of C2 tell the
\* two apart.
TangentSegmentFlippedNy(x1, y1, r1, x2, y2, r2, vx, vy, c, h, sign1, sign2) ==
    LET nx == Sub(Mul(vx, c), Mul(Mul(Q(sign2), h), vy))
        ny == Sub(Mul(vy, c), Mul(Mul(Q(sign2), h), vx))
    IN  << Add(Q(x1), Mul(Q(r1), nx)),
           Add(Q(y1), Mul(Q(r1), ny)),
           Add(Q(x2), Mul(Q(sign1 * r2), nx)),
           Add(Q(y2), Mul(Q(sign1 * r2), ny)) >>

\* The body of "for sign2 in [1, -1]": the segment appended for one pair of signs.
TangentSegment(x1, y1, r1, x2, y2, r2, vx, vy, c, h, sign1, sign2) ==
    LET nx == Sub(Mul(vx, c), Mul(Mul(Q(sign2), h), vy))
        ny == Add(Mul(vy, c), Mul(Mul(Q(sign2), h), vx))
    IN  << Add(Q(x1), Mul(Q(r1), nx)),
           Add(Q(y1), Mul(Q(r1), ny)),
           Add(Q(x2), Mul(Q(sign1 * r2), nx)),
           Add(Q(y2), Mul(Q(sign1 * r2), ny)) >>

\* The body of "for sign1 in [1, -1]" for the family's cosine c: the segments
\* one tangent family appends.
TangentFamily(x1, y1, r1, x2, y2, r2, vx, vy, c, sign1) ==
    IF Less(Q(1), Mul(c, c)) THEN <<>>
    ELSE LET h == Sqrt(Max(Q(0), Sub(Q(1), Mul(c, c))))
         IN  << TangentSegment(x1, y1, r1, x2, y2, r2, vx, vy, c, h, sign1, 1),
                TangentSegment(x1, y1, r1, x2, y2, r2, vx, vy, c, h, sign1, -1) >>

\* A variant of get_tangents whose early return leaves out the case of equality
\* (internally touching circles) unless the centres coincide.  C1 tells the
\* two apart.
get_tangents_strict(x1, y1, r1, x2, y2, r2) ==
    LET d_sq == (x1 - x2) * (x1 - x2) + (y1 - y2) * (y1 - y2)
        d    == Sqrt(Q(d_sq))
    IN  IF d_sq = 0 \/ d_sq < (r1 - r2) * (r1 - r2) THEN <<>>
        ELSE TangentFamily(x1, y1, r1, x2, y2, r2, Div(Q(x2 - x1), d), Div(Q(y2 - y1), d),
                           Div(Q(r1 - 1 * r2), d), 1)
             \o TangentFamily(x1, y1, r1, x2, y2, r2, Div(Q(x2 - x1), d), Div(Q(y2 - y1), d),
                              Div(Q(r1 - (-1) * r2), d), -1)

get_tangents(x1, y1, r1, x2, y2, r2) ==
    LET d_sq == (x1 - x2) * (x1 - x2) + (y1 - y2) * (y1 - y2)
        d    == Sqrt(Q(d_sq))
    IN  IF d_sq <= (r1 - r2) * (r1 - r2) THEN <<>>
        ELSE TangentFamily(x1, y1, r1, x2, y2, r2, Div(Q(x2 - x1), d), Div(Q(y2 - y1), d),
                           Div(Q(r1 - 1 * r2), d), 1)
             \o TangentFamily(x1, y1, r1, x2, y2, r2, Div(Q(x2 - x1), d), Div(Q(y2 - y1), d),
                              Div(Q(r1 - (-1) * r2), d), -1)

(***************************************************************************)
(* Tests on floats.                                                        *)
(***************************************************************************)
\* The program holds the segment as it is, without rounding.
ExactSegment(x1, y1, x2, y2) == ~x1.rnd /\ ~y1.rnd /\ ~x2.rnd /\ ~y2.rnd

\* The signs the program can find for its float of the number u: the sign of
\* u, unless u = 0 was computed with rounding, which can leave a float just
\* below or just above zero.
FloatSigns(u) == IF u.rnd /\ Sign(u) = 0 THEN {-1, 0, 1} ELSE {Sign(u)}

\* The values the program can find for "u < v", for two numbers computed from
\* a segment that is exact or not: from an exact segment, equal numbers are
\* computed to equal floats.
FloatLess(u, v, exact) == IF ~exact /\ Same(u, v) THEN BOOLEAN ELSE {Less(u, v)}

(***************************************************************************)
(* circle_line_intersection(cx, cy, cr, x1, y1, x2, y2, lb, ub): an        *)
(* integer circle and a segment of exact numbers.  The result is the set   *)
(* of the outcomes the call can have, each one                             *)
(* [error |-> "none", value |-> the list of points <<x, y>>], or           *)
(* [error |-> "ZeroDivisionError", value |-> <<>>] when the call raises,   *)
(* or [error |-> "undetermined", value |-> <<>>] when the call returns a   *)
(* list that the model's arithmetic does not determine.                    *)
(***************************************************************************)
QuadA(x1, y1, x2, y2) ==
    LET dx == Sub(x2, x1)
        dy == Sub(y2, y1)
    IN  Add(Mul(dx, dx), Mul(dy, dy))

QuadB(cx, cy, x1, y1, x2, y2) ==
    LET dx == Sub(x2, x1)
        dy == Sub(y2, y1)
    IN  Mul(Q(2), Add(Mul(dx, Sub(x1, Q(cx))), Mul(dy, Sub(y1, Q(cy)))))

QuadC(cx, cy, cr, x1, y1) ==
    Sub(Add(Mul(Sub(x1, Q(cx)), Sub(x1, Q(cx))), Mul(Sub(y1, Q(cy)), Sub(y1, Q(cy)))),
        Q(cr * cr))

\* "det = B ** 2 - 4 * A * C"
QuadDet(A, B, C) == Sub(Mul(B, B), Mul(Mul(Q(4), A), C))

\* A variant of InBounds whose lower bound is strict (t > 0): it drops a root
\* at the very start of the segment.  C4 tells the two apart.
InBoundsStrictLower(t, lb, ub) == (~lb \/ Sign(t) > 0) /\ (~ub \/ ~Less(Q(1), t))

\* "(not lb or t >= 0) and (not ub or t <= 1)"
InBounds(t, lb, ub) == (~lb \/ Sign(t) >= 0) /\ (~ub \/ ~Less(Q(1), t))

\* The values the program can find for the test InBounds: rounding decides
\* it for a rounded root that lies on a bound that is tested.
InBoundsOutcomes(t, lb, ub) ==
    IF t.rnd /\ ((lb /\ Sign(t) = 0) \/ (ub /\ Same(t, Q(1)))) THEN BOOLEAN
    ELSE {InBounds(t, lb, ub)}

\* "[x1 + t * dx, y1 + t * dy]"
PointAt(t, x1, y1, x2, y2) ==
    << Add(x1, Mul(t, Sub(x2, x1))), Add(y1, Mul(t, Sub(y2, y1))) >>

\* The point at parameter t, listed when t passes the bounds.
PointIfInBounds(t, x1, y1, x2, y2, lb, ub) ==
    {IF in THEN << PointAt(t, x1, y1, x2, y2) >> ELSE <<>> :
        in \in InBoundsOutcomes(t, lb, ub)}

\* A variant of Root with the sign of B lost, "(B + sign * sqrt(det)) / (2 * A)":
\* its roots are mirrored about the ray's origin.  C8 tells the two apart.
RootMirrored(A, B, det, sign) == Div(Add(B, Mul(Q(sign), Sqrt(det))), Mul(Q(2), A))

\* The root "(-B + sign * math.sqrt(det)) / (2 * A)".
Root(A, B, det, sign) == Div(Add(Neg(B), Mul(Q(sign), Sqrt(det))), Mul(Q(2), A))

\* The call reaches "t = -B / (2 * A)" with A = 0.
circle_line_raises(cx, cy, cr, x1, y1, x2, y2) ==
    /\ Sign(QuadA(x1, y1, x2, y2)) = 0
    /\ Sign(QuadDet(QuadA(x1, y1, x2, y2), QuadB(cx, cy, x1, y1, x2, y2),
                    QuadC(cx, cy, cr, x1, y1))) = 0

\* The numbers of S lie in one field: the irrational ones have one radicand.
\* Sums, products and quotients of such numbers are numbers of the model.
OneField(S) == \A u, v \in S : u.b = 0 \/ v.b = 0 \/ u.m = v.m

\* The two roots and the points at them are numbers of the model:
\* math.sqrt(det) is one, and lies in one field with the coordinates.
HasRoots(det, x1, y1, x2, y2) ==
    det.b = 0 /\ OneField({Sqrt(det), x1, y1, x2, y2})

\* The three branches on det, for the sign s the program finds for det.  With
\* A = 0.0, "t = -B / (2 * A)" divides by zero.  With a rounded A = 0, the
\* program's endpoints can be one point, and the division raises, or two
\* points one rounding apart: the line through them is in no relation to the
\* exact numbers, and neither are the points returned.  They are
\* "undetermined", as are two roots that are no numbers of the model.
IntersectionsByDet(s, A, B, det, x1, y1, x2, y2, lb, ub) ==
    IF s < 0 THEN {[error |-> "none", value |-> <<>>]}
    ELSE IF s = 0
    THEN IF Sign(A) = 0
         THEN {[error |-> "ZeroDivisionError", value |-> <<>>]}
              \cup (IF A.rnd THEN {[error |-> "undetermined", value |-> <<>>]} ELSE {})
         ELSE {[error |-> "none", value |-> p] :
                  p \in PointIfInBounds(Div(Neg(B), Mul(Q(2), A)), x1, y1, x2, y2, lb, ub)}
    ELSE IF Sign(A) = 0 \/ ~HasRoots(det, x1, y1, x2, y2)
    THEN {[error |-> "undetermined", value |-> <<>>]}
    ELSE {[error |-> "none", value |-> p \o q] :
             p \in PointIfInBounds(Root(A, B, det, -1), x1, y1, x2, y2, lb, ub),
             q \in PointIfInBounds(Root(A, B, det, 1), x1, y1, x2, y2, lb, ub)}

\* The branches the program can take for the discriminant det.
IntersectionsOfDet(A, B, det, x1, y1, x2, y2, lb, ub) ==
    UNION {IntersectionsByDet(s, A, B, det, x1, y1, x2, y2, lb, ub) : s \in FloatSigns(det)}

\* The quadratic with coefficients A, B, C.
IntersectionsOfQuadratic(A, B, C, x1, y1, x2, y2, lb, ub) ==
    IntersectionsOfDet(A, B, QuadDet(A, B, C), x1, y1, x2, y2, lb, ub)

circle_line_intersection(cx, cy, cr, x1, y1, x2, y2, lb, ub) ==
    IF ~OneField({x1, y1, x2, y2}) THEN {[error |-> "undetermined", value |-> <<>>]}
    ELSE IntersectionsOfQuadratic(QuadA(x1, y1, x2, y2), QuadB(cx, cy, x1, y1, x2, y2),
                                  QuadC(cx, cy, cr, x1, y1), x1, y1, x2, y2, lb, ub)

(***************************************************************************)
(* get_first_intersection(circles, ray): circles is a sequence of integer  *)
(* circles <<x, y, r>>, ray a segment of exact numbers.  The result is the *)
(* set of the outcomes the call can have, each one                         *)
(* [error |-> "none", value |-> <<>>] for None,                            *)
(* [error |-> "none", value |-> <<point, circle>>] for a hit, and          *)
(* [error |-> e, value |-> <<>>] when a call it makes has the outcome e.   *)
(***************************************************************************)
\* The values the program can find for "first_intersection is None or
\* abs(i[0] - ray[0]) < abs(first_intersection[0][0] - ray[0])".
Closer(first, i, ray) ==
    IF first = <<>> THEN {TRUE}
    ELSE FloatLess(Abs(Sub(i[1], ray[1])), Abs(Sub(first[1][1], ray[1])),
                   ExactSegment(ray[1], ray[2], ray[3], ray[4]))

\* The inner loop "for i in intersections" from the k-th point on: the values
\* first_intersection can have after it.
RECURSIVE ScanPoints(_, _, _, _, _)
ScanPoints(first, points, k, c, ray) ==
    IF k > Len(points) THEN {first}
    ELSE UNION {ScanPoints(IF better THEN <<points[k], c>> ELSE first, points, k + 1, c, ray) :
                   better \in Closer(first, points[k], ray)}

RECURSIVE ScanCircles(_, _, _, _)

\* One pass of "for c in circles" for the k-th circle, when the outcome of
\* circle_line_intersection on it is r.
ScanCircle(first, r, circs, k, ray) ==
    IF r.error # "none" THEN {[error |-> r.error, value |-> <<>>]}
    ELSE UNION {ScanCircles(f, circs, k + 1, ray) :
                   f \in ScanPoints(first, r.value, 1, circs[k], ray)}

\* A variant of ScanCircles that leaves ub at its default True: the ray is cut
\* off at its second endpoint.  C7 tells the two apart.
ScanCirclesWithinSegment(first, circs, k, ray) ==
    IF k > Len(circs) THEN {[error |-> "none", value |-> first]}
    ELSE UNION {ScanCircle(first, r, circs, k, ray) :
                   r \in circle_line_intersection(circs[k][1], circs[k][2], circs[k][3],
                                                  ray[1], ray[2], ray[3], ray[4], TRUE, TRUE)}

\* The outer loop "for c in circles" from the k-th circle on.
ScanCircles(first, circs, k, ray) ==
    IF k > Len(circs) THEN {[error |-> "none", value |-> first]}
    ELSE UNION {ScanCircle(first, r, circs, k, ray) :
                   r \in circle_line_intersection(circs[k][1], circs[k][2], circs[k][3],
                                                  ray[1], ray[2], ray[3], ray[4], TRUE, FALSE)}

get_first_intersection(circs, ray) == ScanCircles(<<>>, circs, 1, ray)

\* Some call of circle_line_intersection made by get_first_intersection can
\* raise.  A = 0 says that the endpoints of the ray coincide; B and det are
\* then 0 for every circle, and the call for the first circle raises.
get_first_intersection_raises(circs, ray) ==
    Len(circs) > 0 /\ Same(ray[1], ray[3]) /\ Same(ray[2], ray[4])

(***************************************************************************)
(* is_visible(target, source, obstacles): target and source are tuples     *)
(* whose first two entries are the coordinates.  The result is the set of  *)
(* the outcomes the call can have, each one                                *)
(* [error |-> "none", value |-> the boolean returned]; error is the        *)
(* outcome of a call it makes when that is not "none".                     *)
(***************************************************************************)
RECURSIVE ScanTangents(_, _, _)

\* One pass of "for t in tangents" for the k-th tangent, when the outcome of
\* get_first_intersection on it is hit.
ScanTangent(hit, tangents, k, obstacles) ==
    IF hit.error # "none" THEN {[error |-> hit.error, value |-> FALSE]}
    ELSE IF hit.value # <<>> THEN {[error |-> "none", value |-> FALSE]}
    ELSE ScanTangents(tangents, k + 1, obstacles)

\* The loop "for t in tangents" from the k-th tangent on.
ScanTangents(tangents, k, obstacles) ==
    IF k > Len(tangents) THEN {[error |-> "none", value |-> TRUE]}
    ELSE UNION {ScanTangent(hit, tangents, k, obstacles) :
                   hit \in get_first_intersection(obstacles, tangents[k])}

is_visible(target, source, obstacles) ==
    ScanTangents(get_tangents(source[1], source[2], 0, target[1], target[2], 0), 1, obstacles)

(***************************************************************************)
(* Inputs of the pure functions.                                           *)
(***************************************************************************)
MaxCoord == 2

MaxRadius == 1

MaxObstacles == 2

MaxTangentRadius == 2

Coords == 0..MaxCoord

Radii == 0..MaxRadius

Circles == Coords \X Coords \X Radii

\* The circles handed to get_tangents on its own.
TangentCircles == Coords \X Coords \X (0..MaxTangentRadius)

Segments == Coords \X Coords \X Coords \X Coords

ObstacleLists == UNION {[1..n -> Circles] : n \in 0..MaxObstacles}

\* A segment of integers as a segment of exact numbers.
QSeg(seg) == <<Q(seg[1]), Q(seg[2]), Q(seg[3]), Q(seg[4])>>

\* main() is not running: its variables hold nothing yet, and the pure
\* functions leave them alone.
MainIdle ==
    /\ radius = 0
    /\ position = <<0, 0>>
    /\ circles = <<>>
    /\ status = "idle"

(***************************************************************************)
(* One call of get_tangents on two circles a = args[1] and b = args[2].    *)
(***************************************************************************)
InitTangents ==
    /\ pc = "call"
    /\ args \in TangentCircles \X TangentCircles
    /\ result = <<>>
    /\ MainIdle

CallTangents ==
    /\ pc = "call"
    /\ result' = get_tangents(args[1][1], args[1][2], args[1][3],
                              args[2][1], args[2][2], args[2][3])
    /\ pc' = "done"
    /\ UNCHANGED <<args, radius, position, circles, status>>

SpecTangents == InitTangents /\ [][CallTangents]_vars

(***************************************************************************)
(* One call of circle_line_intersection on a circle and an integer         *)
(* segment, with the two bound flags.                                      *)
(***************************************************************************)
InitIntersect ==
    /\ pc = "call"
    /\ args \in [circle : Circles, seg : Segments, lb : BOOLEAN, ub : BOOLEAN]
    /\ result = <<>>
    /\ MainIdle

CallIntersect ==
    /\ pc = "call"
    /\ result' \in circle_line_intersection(args.circle[1], args.circle[2], args.circle[3],
                                            Q(args.seg[1]), Q(args.seg[2]),
                                            Q(args.seg[3]), Q(args.seg[4]),
                                            args.lb, args.ub)
    /\ pc' = "done"
    /\ UNCHANGED <<args, radius, position, circles, status>>

SpecIntersect == InitIntersect /\ [][CallIntersect]_vars

(***************************************************************************)
(* One call of get_first_intersection on a list of obstacles and an        *)
(* integer ray.                                                            *)
(***************************************************************************)
InitFirstHit ==
    /\ pc = "call"
    /\ args \in [circles : ObstacleLists, ray : Segments]
    /\ result = <<>>
    /\ MainIdle

CallFirstHit ==
    /\ pc = "call"
    /\ result' \in get_first_intersection(args.circles, QSeg(args.ray))
    /\ pc' = "done"
    /\ UNCHANGED <<args, radius, position, circles, status>>

SpecFirstHit == InitFirstHit /\ [][CallFirstHit]_vars

(***************************************************************************)
(* One call of is_visible on a target circle, a source circle and a list   *)
(* of obstacles.  is_visible reads only the first two entries of target    *)
(* and source: the two are drawn with one common radius, and the source    *)
(* from the row y = 0.                                                     *)
(***************************************************************************)
InitVisible ==
    /\ pc = "call"
    /\ \E tx \in Coords, ty \in Coords, sx \in Coords, r \in Radii, obs \in ObstacleLists :
           args = [target |-> <<tx, ty, r>>, source |-> <<sx, 0, r>>, obstacles |-> obs]
    /\ result = <<>>
    /\ MainIdle

CallVisible ==
    /\ pc = "call"
    /\ result' \in is_visible(args.target, args.source, args.obstacles)
    /\ pc' = "done"
    /\ UNCHANGED <<args, radius, position, circles, status>>

SpecVisible == InitVisible /\ [][CallVisible]_vars

(***************************************************************************)
(* main(): the window loop.  status is "idle" before main() runs,          *)
(* "running" inside the loop, "quitting" once a QUIT event has cleared     *)
(* `running` (the rest of that iteration still runs), "quit" after the     *)
(* loop, and the name of the exception when an iteration raises.           *)
(***************************************************************************)
ScreenWidth == 800

ScreenHeight == 600

InitialRadius == 100

InitialX == 200

InitialY == 200

RadiusStep == 10

RadiusMax == 200

RadiusMin == 10

TargetX == 200

TargetY == 200

TargetRadius == 100

CircleCount == 10

\* Pointer positions are sampled every PointerStep pixels of the window, and
\* one more off the grid: there the circle around the pointer, at radius 30,
\* touches the target circle in a point whose coordinates are no floats.
PointerStep == 200

TouchingPointer == <<134, 312>>

PointerPositions ==
    {<<i * PointerStep, j * PointerStep>> :
        i \in 0..(ScreenWidth \div PointerStep), j \in 0..(ScreenHeight \div PointerStep)}
    \cup {TouchingPointer}

\* "x = random.randint(0, 800); y = random.randint(0, 600); r = random.randint(10, 100)"
DrawRadiusMin == 10

DrawRadiusMax == 100

\* The lists of ten circles random.randint can draw are sampled: MaxDraws of
\* them, the d-th with its i-th circle a fixed stride into each of the three
\* ranges.
MaxDraws == 3

CircleDraw(d) ==
    [i \in 1..CircleCount |->
        << (i * d * PointerStep) % (ScreenWidth + 1),
           (i * d * PointerStep) % (ScreenHeight + 1),
           DrawRadiusMin + ((i * d * RadiusStep) % (DrawRadiusMax - DrawRadiusMin + 1)) >>]

CircleDraws == {CircleDraw(d) : d \in 1..MaxDraws}

InLoop == pc = "main" /\ status \in {"running", "quitting"}

InitMain ==
    /\ pc = "main"
    /\ args = <<>>
    /\ result = <<>>
    /\ radius = InitialRadius
    /\ position = <<InitialX, InitialY>>
    /\ circles \in CircleDraws
    /\ status = "running"

\* "if event.type == pygame.QUIT: running = False"
QuitEvent ==
    /\ InLoop
    /\ status' = "quitting"
    /\ UNCHANGED <<pc, args, result, radius, position, circles>>

\* "if event.button == 4 and radius < 200: radius += 10"
ScrollUp ==
    /\ InLoop
    /\ radius' = IF radius < RadiusMax THEN radius + RadiusStep ELSE radius
    /\ UNCHANGED <<pc, args, result, position, circles, status>>

\* "if event.button == 5 and radius > 10: radius -= 10"
ScrollDown ==
    /\ InLoop
    /\ radius' = IF radius > RadiusMin THEN radius - RadiusStep ELSE radius
    /\ UNCHANGED <<pc, args, result, position, circles, status>>

\* "hit = get_first_intersection(circles, t)" for a tangent t whose endpoints
\* coincide in exact arithmetic.  When the coordinates are floats exactly, the
\* program computes them without rounding, its endpoints coincide too and the
\* call raises.  Otherwise the program's two endpoints are two differently
\* rounded values of one number: they may coincide, and the call raise, or
\* differ in the last bit, and the call return (the outcomes
\* "ZeroDivisionError" and "undetermined" of circle_line_intersection).
MayRaise(circs, t) == get_first_intersection_raises(circs, t)

MustRaise(circs, t) ==
    get_first_intersection_raises(circs, t) /\ ExactSegment(t[1], t[2], t[3], t[4])

\* The exception the rest of an iteration can end in, "none" when it can run to
\* its end, with the tangents it has computed: tangents[0] and tangents[1] are
\* indexed for the polygon, and every tangent is handed to
\* get_first_intersection (whose hit is only drawn).  The drawing calls and
\* the shapely polygon test change nothing the loop reads.
OutcomesOfTangents(tangents, circs) ==
    IF Len(tangents) < 2 THEN {"IndexError"}
    ELSE (IF \E k \in 1..Len(tangents) : MayRaise(circs, tangents[k])
          THEN {"ZeroDivisionError"} ELSE {})
         \cup (IF \E k \in 1..Len(tangents) : MustRaise(circs, tangents[k])
               THEN {} ELSE {"none"})

\* The outcomes of an iteration with the pointer at pos.
FrameOutcomes(pos, rad, circs) ==
    OutcomesOfTangents(get_tangents(pos[1], pos[2], rad, TargetX, TargetY, TargetRadius),
                       circs)

\* The values radius takes: InitialRadius moved by steps within its limits.
LoopRadii == {r \in RadiusMin..RadiusMax : (r - InitialRadius) % RadiusStep = 0}

\* FrameOutcomes on the states of the loop, computed once.
FrameOutcomesAt ==
    [pos \in PointerPositions, rad \in LoopRadii, circs \in CircleDraws |->
        FrameOutcomes(pos, rad, circs)]

\* One iteration from "position = pygame.mouse.get_pos()" on: an exception
\* ends the program, otherwise "while running" is tested again.
Frame(pos) ==
    /\ InLoop
    /\ position' = pos
    /\ \E e \in FrameOutcomesAt[pos, radius, circles] :
           status' = IF e # "none" THEN e
                     ELSE IF status = "quitting" THEN "quit" ELSE "running"
    /\ UNCHANGED <<pc, args, result, radius, circles>>

NextMain ==
    \/ QuitEvent
    \/ ScrollUp
    \/ ScrollDown
    \/ \E pos \in PointerPositions : Frame(pos)

SpecMain == InitMain /\ [][NextMain]_vars

(***************************************************************************)
(* Properties of get_tangents, over SpecTangents.                          *)
(***************************************************************************)
\* The number u has no surd part.
IsRational(u) == u.b = 0

\* The squared distance between the centres of circles a and b.
CentreDistSq(a, b) == (a[1] - b[1]) * (a[1] - b[1]) + (a[2] - b[2]) * (a[2] - b[2])

\* The squared distance from the point (px, py) to the centre of circle c.
DistSqTo(px, py, c) ==
    Add(Mul(Sub(px, Q(c[1])), Sub(px, Q(c[1]))), Mul(Sub(py, Q(c[2])), Sub(py, Q(c[2]))))

\* (p - centre of a) . (centre of b - centre of a)
DotAlong(px, py, a, b) ==
    Add(Mul(Sub(px, Q(a[1])), Q(b[1] - a[1])), Mul(Sub(py, Q(a[2])), Q(b[2] - a[2])))

\* (centre of b - centre of a) x (p - centre of o)
CrossAlong(px, py, o, a, b) ==
    Sub(Mul(Q(b[1] - a[1]), Sub(py, Q(o[2]))), Mul(Q(b[2] - a[2]), Sub(px, Q(o[1]))))

\* The signs (sign1, sign2) of the i-th segment in the order (+,+), (+,-), (-,+), (-,-).
OrderSign1 == <<1, 1, -1, -1>>

OrderSign2 == <<1, -1, 1, -1>>

\* Segment seg is the one get_tangents builds for circles a, b and signs s1, s2:
\* its first endpoint P is at distance rA from A's centre and its second Q at
\* distance rB from B's centre; P sits at the angle whose cosine is
\* (rA - s1*rB)/d from the centre line, on the side s2 of it; Q on the side
\* s1*s2.
IsTangentFor(seg, a, b, s1, s2) ==
    LET k    == a[3] - s1 * b[3]
        flat == CentreDistSq(a, b) = k * k
    IN  /\ Same(DistSqTo(seg[1], seg[2], a), Q(a[3] * a[3]))
        /\ Same(DistSqTo(seg[3], seg[4], b), Q(b[3] * b[3]))
        /\ Same(DotAlong(seg[1], seg[2], a, b), Q(a[3] * k))
        /\ Sign(CrossAlong(seg[1], seg[2], a, a, b)) = (IF a[3] = 0 \/ flat THEN 0 ELSE s2)
        /\ Sign(CrossAlong(seg[3], seg[4], b, a, b)) = (IF b[3] = 0 \/ flat THEN 0 ELSE s1 * s2)

\* C1: when the squared distance between the centres is at most (rA - rB)^2
\* (one circle inside the other, internally touching, or concentric),
\* get_tangents returns the empty list.
C1_NestedCirclesHaveNoTangents ==
    (pc = "done" /\ CentreDistSq(args[1], args[2]) <= (args[1][3] - args[2][3]) * (args[1][3] - args[2][3]))
        => result = <<>>

\* A call on two circles with distinct centres, one inside the other, has
\* returned the empty list.
C1_Witness ==
    /\ pc = "done"
    /\ CentreDistSq(args[1], args[2]) > 0
    /\ CentreDistSq(args[1], args[2]) <= (args[1][3] - args[2][3]) * (args[1][3] - args[2][3])
    /\ result = <<>>

\* C2: when the centres are further apart than |rA - rB| and both families
\* exist (d >= rA + rB), get_tangents returns exactly four segments, in the
\* order (+,+), (+,-), (-,+), (-,-) of (sign1, sign2), each with its first
\* endpoint at distance rA from A's centre and its second at distance rB from
\* B's centre.
C2_FourTangentsInOrder ==
    (/\ pc = "done"
     /\ CentreDistSq(args[1], args[2]) > (args[1][3] - args[2][3]) * (args[1][3] - args[2][3])
     /\ CentreDistSq(args[1], args[2]) >= (args[1][3] + args[2][3]) * (args[1][3] + args[2][3]))
        => /\ Len(result) = 4
           /\ \A i \in 1..4 :
                  IsTangentFor(result[i], args[1], args[2], OrderSign1[i], OrderSign2[i])

\* A call on two separate circles of positive radius has returned four
\* distinct segments, with irrational coordinates among them.
C2_Witness ==
    /\ pc = "done"
    /\ args[1][3] > 0
    /\ args[2][3] > 0
    /\ CentreDistSq(args[1], args[2]) > (args[1][3] + args[2][3]) * (args[1][3] + args[2][3])
    /\ Len(result) = 4
    /\ Cardinality({result[i] : i \in 1..4}) = 4
    /\ \E i \in 1..4 : ~IsRational(result[i][1])

\* C9: every segment get_tangents returns has distinct endpoints, also when
\* the circles touch externally (d = rA + rB), so that handing it to
\* circle_line_intersection never meets a segment of length zero.
C9_TangentsHaveDistinctEndpoints ==
    pc = "done" =>
        \A k \in 1..Len(result) :
            /\ ~(Same(result[k][1], result[k][3]) /\ Same(result[k][2], result[k][4]))
            /\ \A c \in Circles : ~get_first_intersection_raises(<<c>>, result[k])

(***************************************************************************)
(* Properties of circle_line_intersection, over SpecIntersect.  The        *)
(* quadratic A*t^2 + B*t + C of an integer circle c and an integer segment *)
(* seg has integer coefficients; where its roots t1 <= t2 lie is read off  *)
(* the signs of the coefficients.                                          *)
(***************************************************************************)
IntA(seg) == (seg[3] - seg[1]) * (seg[3] - seg[1]) + (seg[4] - seg[2]) * (seg[4] - seg[2])

IntB(c, seg) == 2 * ((seg[3] - seg[1]) * (seg[1] - c[1]) + (seg[4] - seg[2]) * (seg[2] - c[2]))

IntC(c, seg) == (seg[1] - c[1]) * (seg[1] - c[1]) + (seg[2] - c[2]) * (seg[2] - c[2]) - c[3] * c[3]

IntDet(c, seg) == IntB(c, seg) * IntB(c, seg) - 4 * IntA(seg) * IntC(c, seg)

\* t1 >= 0: both roots are non-negative.
LowerRootFromStart(c, seg) == IntB(c, seg) <= 0 /\ IntC(c, seg) >= 0

\* t2 >= 0: some root is non-negative.
UpperRootFromStart(c, seg) == IntB(c, seg) <= 0 \/ IntC(c, seg) <= 0

\* t1 <= 1 and t2 <= 1, by the same reading of the quadratic in s = 1 - t,
\* whose coefficients are A, -(2A + B), A + B + C.
LowerRootToEnd(c, seg) ==
    -(2 * IntA(seg) + IntB(c, seg)) <= 0 \/ IntA(seg) + IntB(c, seg) + IntC(c, seg) <= 0

UpperRootToEnd(c, seg) ==
    -(2 * IntA(seg) + IntB(c, seg)) <= 0 /\ IntA(seg) + IntB(c, seg) + IntC(c, seg) >= 0

LowerRootAllowed(c, seg, lb, ub) ==
    (lb => LowerRootFromStart(c, seg)) /\ (ub => LowerRootToEnd(c, seg))

UpperRootAllowed(c, seg, lb, ub) ==
    (lb => UpperRootFromStart(c, seg)) /\ (ub => UpperRootToEnd(c, seg))

\* The number of distinct real roots that pass the bounds.
AllowedRootCount(c, seg, lb, ub) ==
    IF IntDet(c, seg) < 0 THEN 0
    ELSE IF IntDet(c, seg) = 0 THEN (IF LowerRootAllowed(c, seg, lb, ub) THEN 1 ELSE 0)
    ELSE (IF LowerRootAllowed(c, seg, lb, ub) THEN 1 ELSE 0)
         + (IF UpperRootAllowed(c, seg, lb, ub) THEN 1 ELSE 0)

\* A times the parameter t of the point p on the line of seg: (p - p0) . (p1 - p0).
ParamTimesA(p, seg) ==
    Add(Mul(Sub(p[1], Q(seg[1])), Q(seg[3] - seg[1])), Mul(Sub(p[2], Q(seg[2])), Q(seg[4] - seg[2])))

\* The point p is an intersection of circle c with the line of seg at a
\* parameter that passes the bounds.
IsAllowedIntersection(p, c, seg, lb, ub) ==
    /\ Same(DistSqTo(p[1], p[2], c), Q(c[3] * c[3]))
    /\ Sign(Sub(Mul(Q(seg[3] - seg[1]), Sub(p[2], Q(seg[2]))),
                Mul(Q(seg[4] - seg[2]), Sub(p[1], Q(seg[1]))))) = 0
    /\ lb => Sign(ParamTimesA(p, seg)) >= 0
    /\ ub => ~Less(Q(IntA(seg)), ParamTimesA(p, seg))

\* C3: called on a segment whose endpoints coincide, circle_line_intersection
\* fails with an explicit InvalidGeometry error and does not divide by zero.
C3_DegenerateSegmentIsRejected ==
    (pc = "done" /\ IntA(args.seg) = 0) => result.error = "InvalidGeometry"

\* C4: for a segment with distinct endpoints, circle_line_intersection returns
\* exactly the intersection points whose parameter passes the enabled bounds
\* (t >= 0 when lb, t <= 1 when ub): none when the discriminant is negative,
\* and each bound filters on its own.
C4_ExactlyTheRootsWithinBounds ==
    (pc = "done" /\ IntA(args.seg) > 0)
        => /\ result.error = "none"
           /\ Len(result.value) = AllowedRootCount(args.circle, args.seg, args.lb, args.ub)
           /\ \A i \in 1..Len(result.value) :
                  IsAllowedIntersection(result.value[i], args.circle, args.seg, args.lb, args.ub)
           /\ Len(result.value) = 2
                  => ~(/\ Same(result.value[1][1], result.value[2][1])
                       /\ Same(result.value[1][2], result.value[2][2]))

\* A call with both bounds on, on a segment that crosses the circle twice on
\* its line but once within the segment, has returned that one point, whose
\* coordinates are irrational.
C4_Witness ==
    /\ pc = "done"
    /\ IntA(args.seg) > 0
    /\ IntDet(args.circle, args.seg) > 0
    /\ args.lb
    /\ args.ub
    /\ Len(result.value) = 1
    /\ ~IsRational(result.value[1][1])

(***************************************************************************)
(* Properties of get_first_intersection, over SpecFirstHit.                *)
(***************************************************************************)
\* The ray from seg[1..2] through seg[3..4] meets circle c at some t >= 0.
RayMeets(c, seg) == IntA(seg) > 0 /\ IntDet(c, seg) >= 0 /\ UpperRootFromStart(c, seg)

\* The points the ray has in common with the obstacles of circs, at t >= 0.
AllRayPoints(circs, seg) ==
    UNION { UNION { {r.value[i] : i \in 1..Len(r.value)} :
                    r \in circle_line_intersection(circs[k][1], circs[k][2], circs[k][3],
                                                   Q(seg[1]), Q(seg[2]), Q(seg[3]), Q(seg[4]),
                                                   TRUE, FALSE) }
            : k \in 1..Len(circs) }

\* C5: on a ray with distinct endpoints, get_first_intersection returns None
\* exactly when no obstacle is met at t >= 0; otherwise it returns the
\* intersection nearest to the ray's origin along the ray (smallest t), with
\* the obstacle it lies on.
C5_NearestHitAlongTheRay ==
    (pc = "done" /\ IntA(args.ray) > 0)
        => /\ result.error = "none"
           /\ result.value = <<>> <=> ~(\E k \in 1..Len(args.circles) : RayMeets(args.circles[k], args.ray))
           /\ result.value # <<>> =>
                  /\ \E k \in 1..Len(args.circles) : result.value[2] = args.circles[k]
                  /\ IsAllowedIntersection(result.value[1], result.value[2], args.ray, TRUE, FALSE)
                  /\ \A q \in AllRayPoints(args.circles, args.ray) :
                         ~Less(ParamTimesA(q, args.ray), ParamTimesA(result.value[1], args.ray))

(***************************************************************************)
(* Properties of is_visible, over SpecVisible.                             *)
(***************************************************************************)
\* The ray along a segment of exact numbers meets the circle whose quadratic
\* has coefficients A, B, C at some t >= 0.
MeetsBySigns(A, B, C) ==
    /\ Sign(A) > 0
    /\ Sign(QuadDet(A, B, C)) >= 0
    /\ Sign(B) <= 0 \/ Sign(C) <= 0

SegmentRayMeets(c, seg) ==
    MeetsBySigns(QuadA(seg[1], seg[2], seg[3], seg[4]),
                 QuadB(c[1], c[2], seg[1], seg[2], seg[3], seg[4]),
                 QuadC(c[1], c[2], c[3], seg[1], seg[2]))

\* Some segment of tangents, cast as a ray, meets some obstacle.
SomeTangentMeets(tangents, obstacles) ==
    \E k \in 1..Len(tangents) : \E j \in 1..Len(obstacles) :
        SegmentRayMeets(obstacles[j], tangents[k])

\* The tangents between the source and target circles as given.
TangentsOfCircles ==
    get_tangents(args.source[1], args.source[2], args.source[3],
                 args.target[1], args.target[2], args.target[3])

\* The segment from the centre of source to the centre of target.
CentreLine == <<args.source[1], args.source[2], args.target[1], args.target[2]>>

\* All intersections of c with the line of seg lie at t > 1, or at t < 0.
StrictlyBeyond(c, seg) == IntA(seg) > 0 /\ IntDet(c, seg) >= 0 /\ ~LowerRootToEnd(c, seg)

StrictlyBehind(c, seg) == IntA(seg) > 0 /\ IntDet(c, seg) >= 0 /\ ~UpperRootFromStart(c, seg)

\* C6: is_visible returns false exactly when some tangent between the source
\* and target circles (their centres and radii), cast as a ray, hits an
\* obstacle, and true otherwise.  is_visible passes radius 0 for both circles
\* to get_tangents, so that it tests the one ray between the centres.
C6_BlockedIffATangentOfTheCirclesIsHit ==
    pc = "done" =>
        (result.value = FALSE <=> SomeTangentMeets(TangentsOfCircles, args.obstacles))

\* C7: for point circles (radius 0) at distinct positions, all four sign
\* combinations of get_tangents give the one segment from the source point to
\* the target point, and is_visible is a single line-of-sight test: false
\* exactly when some obstacle is met by the ray from the source through the
\* target at some t >= 0.
C7_PointCirclesGiveOneRayTest ==
    (/\ pc = "done"
     /\ args.source[3] = 0
     /\ args.target[3] = 0
     /\ IntA(CentreLine) > 0)
        => /\ Len(TangentsOfCircles) = 4
           /\ \A k \in 1..4 : TangentsOfCircles[k] = QSeg(CentreLine)
           /\ result.value = FALSE
                  <=> \E j \in 1..Len(args.obstacles) : RayMeets(args.obstacles[j], CentreLine)

\* A call on two distinct points and two obstacles, the first off the ray and
\* the second on it, has returned false.
C7_Witness ==
    /\ pc = "done"
    /\ args.source[3] = 0
    /\ args.target[3] = 0
    /\ IntA(CentreLine) > 0
    /\ Len(args.obstacles) = 2
    /\ ~RayMeets(args.obstacles[1], CentreLine)
    /\ RayMeets(args.obstacles[2], CentreLine)
    /\ result.value = FALSE

\* C8: an obstacle strictly beyond the target on the line from source to
\* target (all its intersections at t > 1) makes is_visible return false; an
\* obstacle strictly behind the source (all its intersections at t < 0) is
\* never a hit of get_first_intersection, so obstacles that all lie behind
\* the source leave the target visible.
C8_BeyondBlocksBehindDoesNot ==
    (pc = "done" /\ IntA(CentreLine) > 0)
        => /\ (\E j \in 1..Len(args.obstacles) : StrictlyBeyond(args.obstacles[j], CentreLine))
                  => result.value = FALSE
           /\ \A j \in 1..Len(args.obstacles) :
                  StrictlyBehind(args.obstacles[j], CentreLine)
                      => \A hit \in get_first_intersection(<<args.obstacles[j]>>,
                                                            QSeg(CentreLine)) :
                             hit.value = <<>>
           /\ (\A j \in 1..Len(args.obstacles) : StrictlyBehind(args.obstacles[j], CentreLine))
                  => result.value = TRUE

\* A call with a single obstacle, of positive radius and strictly beyond the
\* target, has returned false.
C8_Witness ==
    /\ pc = "done"
    /\ IntA(CentreLine) > 0
    /\ Len(args.obstacles) = 1
    /\ args.obstacles[1][3] > 0
    /\ StrictlyBeyond(args.obstacles[1], CentreLine)
    /\ result.value = FALSE

(***************************************************************************)
(* Properties of main(), over SpecMain.                                    *)
(***************************************************************************)
\* C10: in every frame, for every pointer position in the window and every
\* radius the scroll events reach, get_tangents(position, radius, 200, 200,
\* 100) returns at least two segments: no frame ends with the IndexError that
\* indexing tangents[0] and tangents[1] of a shorter list raises.
C10_EveryFrameHasTwoTangents ==
    pc = "main" => status # "IndexError"

Init == InitMain

Next == NextMain

Spec == SpecMain
====
